---- MODULE Spec2Model ----
(***************************************************************************)
(* NeoPixel Segment Controller (src/main.py): the serial bridge, the       *)
(* per-segment controls with their debounce timers, and the handlers of    *)
(* the main window, as one state machine.  Tk runs every callback to       *)
(* completion on the single event-loop thread, so each handler is one      *)
(* atomic action.  Text is a sequence of one-character strings, so that    *)
(* parsing (str.strip, str.isdigit, int) and formatting (f-strings) are    *)
(* computed character by character.                                        *)
(***************************************************************************)
EXTENDS Integers, Sequences, FiniteSets, TLC

\* ---------------------------------------------------------------- bounds
\* Largest number of Tk timers of one segment that are outstanding at once.
MaxTimers == 2
\* Number of user events and timer callbacks handled in one run.
MaxSteps == 4

\* ------------------------------------------------------ program constants
BAUD_DEFAULT == 9600
DEBOUNCE_MS == 120
SEG_LENS == <<8, 9, 9, 9, 9>>
\* Channel limits of the per-segment sliders and entries.
SLIDER_MIN == 1
SLIDER_MAX == 255
\* Lower limit of a channel in the "ALL Color" dialog.
ALL_MIN == 0

\* Python's None (after_id, the result of _parse_entry, self.ser).
None == -1

\* The segments modelled: the first two of the five panels of SEG_LENS.  The
\* panels share nothing but the port and the status line.
Sids == {sid \in 0 .. (Len(SEG_LENS) - 1) : sid <= 1}
Channels == {"r_var", "g_var", "b_var"}

\* ------------------------------------------------------------------ text
DigitChars == <<"0", "1", "2", "3", "4", "5", "6", "7", "8", "9">>

IsDigitChar(c) == \E i \in 1..10 : DigitChars[i] = c

\* The value of a digit (only digits are ever converted).
DigitVal(c) == IF IsDigitChar(c) THEN (CHOOSE i \in 1..10 : DigitChars[i] = c) - 1 ELSE 0

IsSpace(c) == c \in {" ", "\n", "\t"}

\* str(n) for n >= 0: decimal, no padding.
RECURSIVE Str(_)
Str(n) == IF n < 10 THEN <<DigitChars[n + 1]>>
          ELSE Str(n \div 10) \o <<DigitChars[(n % 10) + 1]>>

RECURSIVE LStrip(_)
LStrip(t) == IF t # <<>> /\ IsSpace(Head(t)) THEN LStrip(Tail(t)) ELSE t

RECURSIVE RStrip(_)
RStrip(t) == IF t # <<>> /\ IsSpace(t[Len(t)])
             THEN RStrip(SubSeq(t, 1, Len(t) - 1)) ELSE t

\* str.strip()
Strip(t) == RStrip(LStrip(t))

\* str.isdigit(): non-empty and every character a digit.
IsDigitText(t) == t # <<>> /\ \A i \in 1..Len(t) : IsDigitChar(t[i])

\* The value of a string of digits.
RECURSIVE DigitsValue(_)
DigitsValue(t) == IF t = <<>> THEN 0
                  ELSE 10 * DigitsValue(SubSeq(t, 1, Len(t) - 1)) + DigitVal(t[Len(t)])

\* int(text): surrounding whitespace, an optional sign, then digits.
IntBody(t) == IF Strip(t) # <<>> /\ Head(Strip(t)) \in {"+", "-"}
              THEN Tail(Strip(t)) ELSE Strip(t)

\* Whether int(text) returns (otherwise it raises ValueError).
IsIntText(t) == IsDigitText(IntBody(t))

IntValue(t) == IF Strip(t) # <<>> /\ Head(Strip(t)) = "-"
               THEN 0 - DigitsValue(IntBody(t)) ELSE DigitsValue(IntBody(t))

\* SegmentControl._parse_entry
parse_entry(text) == IF IsDigitText(Strip(text)) THEN DigitsValue(Strip(text)) ELSE None

Max(a, b) == IF a > b THEN a ELSE b
Min(a, b) == IF a < b THEN a ELSE b

\* max(lo, min(hi, v))
Clamp(lo, hi, v) == Max(lo, Min(hi, v))

\* A send_line that adds no newline.
WireTextRaw(text) == text

\* str.endswith("\n")
EndsWithNewline(t) == t # <<>> /\ t[Len(t)] = "\n"

\* The bytes SerialBridge.send_line puts on the wire for text.
WireText(text) == IF EndsWithNewline(text) THEN text ELSE text \o <<"\n">>

\* f"S,{sid},{r},{g},{b}"
SegLine(sid, c) ==
    <<"S", ",">> \o Str(sid) \o <<",">> \o Str(c[1]) \o <<",">> \o Str(c[2])
                 \o <<",">> \o Str(c[3])

\* f"A,{r},{g},{b}"
AllLine(c) == <<"A", ",">> \o Str(c[1]) \o <<",">> \o Str(c[2]) \o <<",">> \o Str(c[3])


RECURSIVE SplitAt(_, _, _)
\* text.split(sep), with cur the field being read.
SplitAt(t, sep, cur) ==
    IF t = <<>> THEN <<cur>>
    ELSE IF Head(t) = sep THEN <<cur>> \o SplitAt(Tail(t), sep, <<>>)
    ELSE SplitAt(Tail(t), sep, Append(cur, Head(t)))

\* The comma-separated fields of a line of the wire protocol.
Fields(line) == SplitAt(Strip(line), ",", <<>>)

\* Whether a line is the command "S,<sid>,R,G,B" of the protocol.
IsSegCmd(line) ==
    /\ Len(Fields(line)) = 5
    /\ Fields(line)[1] = <<"S">>
    /\ \A i \in 2..5 : IsDigitText(Fields(line)[i])

CmdSid(line) == DigitsValue(Fields(line)[2])

CmdColor(line) == <<DigitsValue(Fields(line)[3]), DigitsValue(Fields(line)[4]),
                    DigitsValue(Fields(line)[5])>>

\* ---------------------------------------------------------------- inputs
\* Text typed into an R/G/B entry of a segment.
EntryTexts == { <<"2", "5", "5">>, <<"0">>, <<>> }
\* More of the same, for the runs of one segment: a signed number, a number
\* above the range, and text that is no number.
EntryTextsOne == EntryTexts \cup { <<"-", "5">>, <<"3", "0", "0">>, <<"x">> }
\* Positions the user drags a scale to (the scale runs from 1 to 255).
ScaleValues == { SLIDER_MIN }
\* Text typed into the Baud entry.
BaudTexts == { Str(BAUD_DEFAULT) \o <<" ">>, <<"a", "b", "c">>, <<"-", "5">> }
\* Texts typed into the R, G and B entries of the "ALL Color" dialog.
AllTexts == { << <<"3", "0", "0">>, <<" ", "7">>, <<"-", "5">> >>,
              << <<"0">>, <<"2", "5", "5">>, <<"2", "5", "6">> >>,
              << <<"1">>, <<"x">>, <<"1">> >> }
\* What the Serial Port box may show when Connect is pressed: nothing (no
\* port was found) or the label of a port.
PortLabels == { <<>>, <<"C", "O", "M", "X">> }

\* ----------------------------------------------------------------- state
VARIABLES
    ser,            \* SerialBridge.ser: "None" or "Serial" (an open port)
    btn_connect,    \* state of the Connect button
    btn_disconnect, \* state of the Disconnect button
    status_var,     \* App.status_var, as [tag, text]
    seg,            \* per segment: r_var, g_var, b_var, last_sent, after_id, swatch
    timers,         \* per segment: the ids of its Tk timers that are outstanding
    destroyed,      \* the window was closed
    written,        \* the lines the last handler wrote to the port, in order
    last_op,        \* the last handler that ran, with its outcome
    lastCmd,        \* per segment: the last "S" line written for it, or <<>>
    quiet,          \* per segment: the timer armed by the last live change of
                    \* the running burst of live changes made on one open
                    \* connection, or None
    retry,          \* per segment: the colour of the commit that just failed
                    \* for want of a connection, or <<>>
    steps,          \* handlers still to run
    handles,        \* the serial ports the process holds open
    chain,          \* per segment, with no live change since: "wrote" when
                    \* its latest commit wrote a line; "wrote_off" when OFF
                    \* was sent since that commit; "second" when its latest
                    \* commit wrote nothing and came straight after a commit
                    \* that wrote; else "none"
    intent          \* per segment: the user's latest action on its panel:
                    \* "live", "set", "on" or "off" (ON, OFF as sent), or "none"

vars == <<ser, btn_connect, btn_disconnect, status_var, seg, timers,
          destroyed, written, last_op, lastCmd, quiet, retry, steps,
          handles, chain, intent>>

Status(tag, text) == [tag |-> tag, text |-> text]

\* What last_op records: the handler, its segment (or None), its outcome,
\* the texts it was given (connect), and whether it is a commit that follows a
\* commit of the same segment that failed for want of a connection.
Op(name, sid, res) == [op |-> name, sid |-> sid, res |-> res, arg |-> <<>>,
                       retried |-> FALSE]

\* SegmentControl.__init__: last_sent and the three StringVars.
InitColor == <<255, 1, 128>>

InitSeg == [r_var |-> Str(255), g_var |-> Str(1), b_var |-> Str(128),
            last_sent |-> InitColor, after_id |-> None, swatch |-> InitColor]

\* App.__init__, which ends with refresh_ports() and its status.
Init ==
    /\ ser = "None"
    /\ btn_connect = "normal"
    /\ btn_disconnect = "disabled"
    /\ status_var = Status("Ports refreshed", <<>>)
    /\ seg = [s \in Sids |-> InitSeg]
    /\ timers = [s \in Sids |-> {}]
    /\ destroyed = FALSE
    /\ written = <<>>
    /\ last_op = Op("init", None, "")
    /\ lastCmd = [s \in Sids |-> <<>>]
    /\ quiet = [s \in Sids |-> None]
    /\ retry = [s \in Sids |-> <<>>]
    /\ steps = MaxSteps
    /\ handles = 0
    /\ chain = [s \in Sids |-> "none"]
    /\ intent = [s \in Sids |-> "none"]

\* ---------------------------------------------------------- SerialBridge
\* A send_line without its guard.
IsOpenAlways == TRUE

\* SerialBridge.send_line: the guard "self.ser and self.ser.is_open".
IsOpen == ser = "Serial"

\* What SerialBridge.send_line(text) writes and flushes.
BridgeWrite(text) == IF IsOpen THEN <<WireText(text)>> ELSE <<>>

\* self.ser after SerialBridge.close().
Closed == "None"

\* An open() that keeps a port object when serial.Serial() raised.
OpenedAnyway(ok) == "Serial"

\* self.ser after SerialBridge.open(), by whether serial.Serial() returned.
Opened(ok) == IF ok THEN "Serial" ELSE Closed

\* A close() that drops the port object without closing it.
HandlesKept == handles

\* The open ports after SerialBridge.close(): "if self.ser: self.ser.close()".
HandlesClosed == IF ser = "Serial" THEN handles - 1 ELSE handles

\* The open ports after SerialBridge.open(): close(), then serial.Serial().
HandlesOpened(ok) == IF ok THEN HandlesClosed + 1 ELSE HandlesClosed

\* serial.Serial(port, baud) raises ValueError on a negative baud rate;
\* otherwise the operating system decides.
SerialMayOpen(baud) == baud >= 0

\* A send_line that reports "Sent" whatever the bridge returned.
SendStatusSent(text) == Status("Sent", Strip(text))

\* App.send_line: the status shown after bridge.send_line(text).
SendStatus(text) == IF IsOpen THEN Status("Sent", Strip(text))
                    ELSE Status("Not connected", <<>>)

\* The last "S" line of each segment once the lines w are on the wire.
RECURSIVE LastCmdAfter(_, _)
LastCmdAfter(cmds, w) ==
    IF w = <<>> THEN cmds
    ELSE LastCmdAfter([s \in Sids |-> IF IsSegCmd(Head(w)) /\ CmdSid(Head(w)) = s
                                      THEN Head(w) ELSE cmds[s]], Tail(w))

\* App.send_line(text) as part of a handler.
SendLine(text) ==
    /\ written' = BridgeWrite(text)
    /\ status_var' = SendStatus(text)
    /\ lastCmd' = LastCmdAfter(lastCmd, BridgeWrite(text))
    /\ UNCHANGED ser

\* ------------------------------------------------------- SegmentControl
\* SegmentControl._rgb.val_or
val_or(last, s) == IF parse_entry(s) # None THEN parse_entry(s) ELSE last

\* A _rgb that does not clamp.
RgbOfRaw(f) ==
    << val_or(f.last_sent[1], f.r_var), val_or(f.last_sent[2], f.g_var),
       val_or(f.last_sent[3], f.b_var) >>

\* SegmentControl._rgb on the fields f of a segment.
RgbOf(f) ==
    << Clamp(SLIDER_MIN, SLIDER_MAX, val_or(f.last_sent[1], f.r_var)),
       Clamp(SLIDER_MIN, SLIDER_MAX, val_or(f.last_sent[2], f.g_var)),
       Clamp(SLIDER_MIN, SLIDER_MAX, val_or(f.last_sent[3], f.b_var)) >>

rgb(s) == RgbOf(seg[s])

\* SegmentControl._schedule_send: the timers left after the cancel.
AfterCancel(s) == IF seg[s].after_id # None THEN timers[s] \ {seg[s].after_id}
                  ELSE timers[s]

\* The id Tk gives the timer that _schedule_send arms.
NewTimer(s) == CHOOSE t \in 1..MaxTimers :
                  /\ t \notin AfterCancel(s)
                  /\ \A u \in 1..MaxTimers : u \notin AfterCancel(s) => t <= u

CanSchedule(s) == Cardinality(AfterCancel(s)) < MaxTimers

Running == ~destroyed /\ steps > 0

\* What one handler leaves as it found it, besides what it names.
Tick(name, sid, res) ==
    /\ last_op' = Op(name, sid, res)
    /\ steps' = steps - 1

NoWrite == written' = <<>> /\ UNCHANGED <<status_var, lastCmd, ser>>

ConnUnchanged == UNCHANGED <<btn_connect, btn_disconnect, destroyed, handles>>

\* A live change of segment s starts a new run of commits.
LiveNoted(s) ==
    /\ chain' = [chain EXCEPT ![s] = "none"]
    /\ intent' = [intent EXCEPT ![s] = "live"]

\* A _schedule_send that arms nothing.
ScheduledNot(f, s) == f

\* The fields of segment s once _schedule_send has run.
Scheduled(f, s) == [f EXCEPT !.after_id = NewTimer(s)]

TimersScheduled(s) == [timers EXCEPT ![s] = AfterCancel(s) \cup {NewTimer(s)}]

\* The fields after _update_swatch.
Swatched(f) == [f EXCEPT !.swatch = RgbOf(f)]

\* on_entry_change: the text the StringVar holds once a parsed value was clamped.
EntryStored(val) == Str(Clamp(SLIDER_MIN, SLIDER_MAX, val))

\* The user edits the entry of channel ch of segment s to text; the trace
\* on the StringVar runs _mk_slider.on_entry_change.
on_entry_change(s, ch, text) ==
    /\ Running
    /\ IF parse_entry(text) = None
       THEN /\ seg' = [seg EXCEPT ![s][ch] = text]
            /\ UNCHANGED <<timers, chain>>
            /\ intent' = [intent EXCEPT ![s] = "none"]
            /\ quiet' = [quiet EXCEPT ![s] = None]
            /\ Tick("on_entry_change", s, "unparsable")
       ELSE /\ CanSchedule(s)
            /\ seg' = [seg EXCEPT ![s] =
                          Scheduled(Swatched([@ EXCEPT ![ch] = EntryStored(parse_entry(text))]), s)]
            /\ timers' = TimersScheduled(s)
            /\ quiet' = [quiet EXCEPT ![s] = IF IsOpen THEN NewTimer(s) ELSE None]
            /\ LiveNoted(s)
            /\ Tick("on_entry_change", s, "scheduled")
    /\ retry' = [retry EXCEPT ![s] = <<>>]
    /\ NoWrite
    /\ ConnUnchanged

\* The user drags the scale of channel ch of segment s to v: _on_scale, and
\* through the StringVar's trace on_entry_change; both end in _schedule_send.
on_scale(s, ch, v) ==
    /\ Running
    /\ CanSchedule(s)
    /\ seg' = [seg EXCEPT ![s] =
                  Scheduled(Swatched([@ EXCEPT ![ch] = Str(Clamp(SLIDER_MIN, SLIDER_MAX, v))]), s)]
    /\ timers' = TimersScheduled(s)
    /\ quiet' = [quiet EXCEPT ![s] = IF IsOpen THEN NewTimer(s) ELSE None]
    /\ retry' = [retry EXCEPT ![s] = <<>>]
    /\ LiveNoted(s)
    /\ Tick("on_scale", s, "scheduled")
    /\ NoWrite
    /\ ConnUnchanged

\* A send_now without the test against last_sent.
SuppressedNever(s) == FALSE

\* A send_now whose test against last_sent always returns.
SuppressedAlways(s) == TRUE

\* send_now: the test "(r, g, b) == self.last_sent".
Suppressed(s) == rgb(s) = seg[s].last_sent

\* A send_now that records the colour whether or not it was sent.
CommitSentAlways(s) == rgb(s)

\* A send_now that never records what it sent.
CommitSentNever(s) == seg[s].last_sent

\* send_now: last_sent after "if self.send_func(...)".
CommitSent(s) == IF IsOpen THEN rgb(s) ELSE seg[s].last_sent

\* SegmentControl.send_now on segment s, called as handler name, with left
\* the timers of s that stay outstanding.
Commit(name, s, left) ==
    /\ timers' = [timers EXCEPT ![s] = left]
    /\ chain' = [chain EXCEPT ![s] = IF ~Suppressed(s) /\ IsOpen THEN "wrote"
                                      ELSE IF @ = "wrote" THEN "second" ELSE "none"]
    /\ IF Suppressed(s)
       THEN /\ seg' = [seg EXCEPT ![s].after_id = None]
            /\ NoWrite
            /\ retry' = [retry EXCEPT ![s] = <<>>]
            /\ last_op' = [Op(name, s, "suppressed") EXCEPT !.retried = retry[s] # <<>>]
       ELSE /\ SendLine(SegLine(s, rgb(s)))
            /\ seg' = [seg EXCEPT ![s].after_id = None, ![s].last_sent = CommitSent(s)]
            /\ retry' = [retry EXCEPT ![s] = IF IsOpen THEN <<>> ELSE rgb(s)]
            /\ last_op' = [Op(name, s, IF IsOpen THEN "sent" ELSE "not_connected")
                              EXCEPT !.retried = retry[s] # <<>>]
    /\ ConnUnchanged

\* The Set button of segment s.
send_now(s) ==
    /\ Running
    /\ Commit("send_now", s, timers[s])
    /\ steps' = steps - 1
    /\ intent' = [intent EXCEPT ![s] = "set"]
    /\ quiet' = [quiet EXCEPT ![s] = None]

\* The timers of s still outstanding once Tk has run the callback of t:
\* self.after() arms a timer that fires once.
Fired(s, t) == timers[s] \ {t}

\* Tk runs the callback of timer t of segment s: send_now.
timer_fire(s, t) ==
    /\ Running
    /\ t \in timers[s]
    /\ Commit("timer", s, Fired(s, t))
    /\ steps' = steps - 1
    /\ UNCHANGED intent
    /\ quiet' = [quiet EXCEPT ![s] = IF @ = t THEN None ELSE @]

\* The same callback, run by the event loop whenever the timer is due: the
\* count of the user's actions does not hold it back.
timer_due(s, t) ==
    /\ ~destroyed
    /\ t \in timers[s]
    /\ Commit("timer", s, Fired(s, t))
    /\ UNCHANGED <<steps, intent>>
    /\ quiet' = [quiet EXCEPT ![s] = IF @ = t THEN None ELSE @]

\* SegmentControl.on: the colour sent and recorded.
OnColor == <<255, 255, 255>>

\* SegmentControl.off: the colour sent and recorded.
OffColor == <<0, 0, 0>>

\* An on() that ignores the result of send_func.
OnAppliesAlways == TRUE

\* SegmentControl.on: whether "if self.send_func(...)" takes the branch.
OnApplies == IsOpen

\* SegmentControl.on; each of the three var.set("255") runs on_entry_change.
on(s) ==
    /\ Running
    /\ SendLine(SegLine(s, OnColor))
    /\ IF OnApplies
       THEN /\ CanSchedule(s)
            /\ seg' = [seg EXCEPT ![s] =
                          Swatched([Scheduled(@, s) EXCEPT
                                       !.r_var = EntryStored(OnColor[1]),
                                       !.g_var = EntryStored(OnColor[2]),
                                       !.b_var = EntryStored(OnColor[3]),
                                       !.last_sent = OnColor])]
            /\ timers' = TimersScheduled(s)
       ELSE UNCHANGED <<seg, timers>>
    /\ quiet' = [quiet EXCEPT ![s] = None]
    /\ retry' = [retry EXCEPT ![s] = <<>>]
    /\ UNCHANGED chain
    /\ intent' = [intent EXCEPT ![s] = IF IsOpen THEN "on" ELSE "none"]
    /\ Tick("on", s, IF IsOpen THEN "sent" ELSE "not_connected")
    /\ ConnUnchanged

\* An off() that blacks the swatch and forgets last_sent.
OffFieldsSwatchOnly(f) == [f EXCEPT !.swatch = OffColor]

\* SegmentControl.off: the fields after a send that succeeded.
OffFields(f) == [f EXCEPT !.last_sent = OffColor, !.swatch = OffColor]

\* SegmentControl.off
off(s) ==
    /\ Running
    /\ SendLine(SegLine(s, OffColor))
    /\ seg' = IF IsOpen THEN [seg EXCEPT ![s] = OffFields(@)] ELSE seg
    /\ UNCHANGED timers
    /\ quiet' = [quiet EXCEPT ![s] = None]
    /\ retry' = [retry EXCEPT ![s] = <<>>]
    /\ chain' = [chain EXCEPT ![s] = IF ~IsOpen THEN @
                                      ELSE IF @ \in {"wrote", "wrote_off"} THEN "wrote_off"
                                      ELSE "none"]
    /\ intent' = [intent EXCEPT ![s] = IF IsOpen THEN "off" ELSE "none"]
    /\ Tick("off", s, IF IsOpen THEN "sent" ELSE "not_connected")
    /\ ConnUnchanged

\* ------------------------------------------------------------------ App
SegUnchanged == UNCHANGED <<seg, timers, quiet, retry, chain, intent>>

\* A change of the connection ends every running burst.
SegKept == UNCHANGED <<seg, timers, retry, chain, intent>> /\ quiet' = [s \in Sids |-> None]

\* A connect that takes any baud text.
BaudOkAny(text) == TRUE

\* App.connect: whether int(self.baud_var.get().strip()) returns.
BaudOk(text) == IsIntText(Strip(text))

\* App.connect with label in the Serial Port box and text in the Baud entry;
\* ok is whether serial.Serial() returns a port.  The Connect button runs it
\* only while it is enabled.
connect(label, text, ok) ==
    /\ Running
    /\ btn_connect = "normal"
    /\ written' = <<>>
    /\ UNCHANGED <<destroyed, lastCmd>>
    /\ SegKept
    /\ steps' = steps - 1
    /\ IF Strip(label) = <<>>
       THEN /\ UNCHANGED <<ser, btn_connect, btn_disconnect, status_var, handles>>
            /\ last_op' = [Op("connect", None, "no_port") EXCEPT !.arg = <<label, text>>]
       ELSE IF ~BaudOk(text)
       THEN /\ UNCHANGED <<ser, btn_connect, btn_disconnect, status_var, handles>>
            /\ last_op' = [Op("connect", None, "invalid_baud") EXCEPT !.arg = <<label, text>>]
       ELSE IF ~(ok /\ SerialMayOpen(IntValue(Strip(text))))
       THEN /\ ser' = Opened(FALSE)
            /\ handles' = HandlesOpened(FALSE)
            /\ status_var' = Status("Connection failed", <<>>)
            /\ UNCHANGED <<btn_connect, btn_disconnect>>
            /\ last_op' = [Op("connect", None, "open_failed") EXCEPT !.arg = <<label, text>>]
       ELSE /\ ser' = Opened(TRUE)
            /\ handles' = HandlesOpened(TRUE)
            /\ btn_connect' = "disabled"
            /\ btn_disconnect' = "normal"
            /\ status_var' = Status("Connected", <<>>)
            /\ last_op' = [Op("connect", None, "opened") EXCEPT !.arg = <<label, text>>]

\* App.disconnect; the Disconnect button runs it only while it is enabled.
disconnect ==
    /\ Running
    /\ btn_disconnect = "normal"
    /\ ser' = Closed
    /\ handles' = HandlesClosed
    /\ btn_connect' = "normal"
    /\ btn_disconnect' = "disabled"
    /\ status_var' = Status("Disconnected", <<>>)
    /\ written' = <<>>
    /\ UNCHANGED <<destroyed, lastCmd>>
    /\ SegKept
    /\ Tick("disconnect", None, "")

\* The buttons "ALL ON (White)" and "ALL OFF": self.send_line("1"), ("0").
all_on ==
    /\ Running
    /\ SendLine(<<"1">>)
    /\ SegUnchanged
    /\ ConnUnchanged
    /\ Tick("all_on", None, IF IsOpen THEN "sent" ELSE "not_connected")

all_off ==
    /\ Running
    /\ SendLine(<<"0">>)
    /\ SegUnchanged
    /\ ConnUnchanged
    /\ Tick("all_off", None, IF IsOpen THEN "sent" ELSE "not_connected")

\* A dialog that clamps as the segments' sliders do.
AllChannelAsSlider(text) == Clamp(SLIDER_MIN, SLIDER_MAX, IntValue(text))

\* all_color_dialog.send: max(0, min(255, int(text)))
AllChannel(text) == Clamp(ALL_MIN, SLIDER_MAX, IntValue(text))

\* The "ALL Color" dialog with tr, tg, tb in its entries and "Set ALL" pressed.
all_color(tr, tg, tb) ==
    /\ Running
    /\ IF IsIntText(tr) /\ IsIntText(tg) /\ IsIntText(tb)
       THEN /\ SendLine(AllLine(<<AllChannel(tr), AllChannel(tg), AllChannel(tb)>>))
            /\ last_op' = [Op("all_color", None, IF IsOpen THEN "sent" ELSE "not_connected")
                              EXCEPT !.arg = <<tr, tg, tb>>]
       ELSE /\ NoWrite
            /\ last_op' = [Op("all_color", None, "invalid") EXCEPT !.arg = <<tr, tg, tb>>]
    /\ steps' = steps - 1
    /\ SegUnchanged
    /\ ConnUnchanged

\* App.on_close: the bridge is closed and the window, with its timers, destroyed.
on_close ==
    /\ Running
    /\ ser' = Closed
    /\ handles' = HandlesClosed
    /\ destroyed' = TRUE
    /\ timers' = [s \in Sids |-> {}]
    /\ written' = <<>>
    /\ UNCHANGED <<btn_connect, btn_disconnect, status_var, lastCmd, seg, retry,
                   chain, intent>>
    /\ quiet' = [s \in Sids |-> None]
    /\ Tick("on_close", None, "")

Next ==
    \/ \E s \in Sids, ch \in Channels, text \in EntryTexts : on_entry_change(s, ch, text)
    \/ \E s \in Sids, ch \in Channels, v \in ScaleValues : on_scale(s, ch, v)
    \/ \E s \in Sids : send_now(s)
    \/ \E s \in Sids, t \in 1..MaxTimers : timer_fire(s, t)
    \/ \E s \in Sids : on(s)
    \/ \E s \in Sids : off(s)
    \/ \E label \in PortLabels, text \in BaudTexts, ok \in BOOLEAN : connect(label, text, ok)
    \/ disconnect
    \/ all_on
    \/ all_off
    \/ \E t \in AllTexts : all_color(t[1], t[2], t[3])
    \/ on_close

Spec == Init /\ [][Next]_vars

\* Longer runs, of the first segment alone.
InitOne ==
    /\ ser = "None"
    /\ btn_connect = "normal"
    /\ btn_disconnect = "disabled"
    /\ status_var = Status("Ports refreshed", <<>>)
    /\ seg = [s \in Sids |-> InitSeg]
    /\ timers = [s \in Sids |-> {}]
    /\ destroyed = FALSE
    /\ written = <<>>
    /\ last_op = Op("init", None, "")
    /\ lastCmd = [s \in Sids |-> <<>>]
    /\ quiet = [s \in Sids |-> None]
    /\ retry = [s \in Sids |-> <<>>]
    /\ steps = MaxSteps + 1
    /\ handles = 0
    /\ chain = [s \in Sids |-> "none"]
    /\ intent = [s \in Sids |-> "none"]

NextOne ==
    \/ \E ch \in Channels, text \in EntryTextsOne : on_entry_change(0, ch, text)
    \/ \E ch \in Channels, v \in ScaleValues : on_scale(0, ch, v)
    \/ send_now(0)
    \/ \E t \in 1..MaxTimers : timer_fire(0, t)
    \/ on(0)
    \/ off(0)
    \/ \E label \in PortLabels, text \in BaudTexts, ok \in BOOLEAN : connect(label, text, ok)
    \/ disconnect
    \/ all_on
    \/ all_off
    \/ \E t \in AllTexts : all_color(t[1], t[2], t[3])
    \/ on_close

SpecOne == InitOne /\ [][NextOne]_vars

\* The first segment with its timers run by the event loop: a timer that is
\* armed fires once its delay has passed, whatever the user does or does not do.
InitLive ==
    /\ ser = "None"
    /\ btn_connect = "normal"
    /\ btn_disconnect = "disabled"
    /\ status_var = Status("Ports refreshed", <<>>)
    /\ seg = [s \in Sids |-> InitSeg]
    /\ timers = [s \in Sids |-> {}]
    /\ destroyed = FALSE
    /\ written = <<>>
    /\ last_op = Op("init", None, "")
    /\ lastCmd = [s \in Sids |-> <<>>]
    /\ quiet = [s \in Sids |-> None]
    /\ retry = [s \in Sids |-> <<>>]
    /\ steps = MaxSteps
    /\ handles = 0
    /\ chain = [s \in Sids |-> "none"]
    /\ intent = [s \in Sids |-> "none"]

NextLive ==
    \/ \E ch \in Channels, text \in EntryTexts : on_entry_change(0, ch, text)
    \/ \E ch \in Channels, v \in ScaleValues : on_scale(0, ch, v)
    \/ send_now(0)
    \/ \E t \in 1..MaxTimers : timer_due(0, t)
    \/ on(0)
    \/ off(0)
    \/ \E label \in PortLabels, text \in BaudTexts, ok \in BOOLEAN : connect(label, text, ok)
    \/ disconnect
    \/ all_on
    \/ all_off
    \/ \E t \in AllTexts : all_color(t[1], t[2], t[3])
    \/ on_close

\* What the callback of timer t of segment s does to the outstanding timers
\* when Tk runs it: the timer is armed, the window stands, and t is taken out.
TimerRuns(s, t) ==
    /\ ~destroyed
    /\ t \in timers[s]
    /\ timers' = [timers EXCEPT ![s] = Fired(s, t)]

\* Tk runs the callback of an armed timer once its delay has passed: a timer
\* that stays armed does not stay armed for ever.
SpecLive ==
    /\ InitLive
    /\ [][NextLive]_vars
    /\ \A t \in 1..MaxTimers : WF_timers(TimerRuns(0, t))

\* ---------------------------------------------------------------- claims
\* Wire text, written out character by character.
T255 == <<"2", "5", "5">>
NL == <<"\n">>
Comma == <<",">>

\* 'S,<sid>,255,255,255\n' and 'S,<sid>,0,0,0\n' for a one-digit sid.
OnWire(s) == <<"S", ",", DigitChars[s + 1], ",">> \o T255 \o Comma \o T255 \o Comma
             \o T255 \o NL

OffWire(s) == <<"S", ",", DigitChars[s + 1], ",", "0", ",", "0", ",", "0", "\n">>

\* The port is open.
Connected == ser = "Serial"

\* The handlers that are a commit (SegmentControl.send_now).
CommitOps == {"send_now", "timer"}

\* The StringVars of segment s in f and in g hold the same text.
SameVars(f, g) == f.r_var = g.r_var /\ f.g_var = g.g_var /\ f.b_var = g.b_var

\* Some line of w is an "S" command for segment s.
WroteFor(w, s) == \E i \in 1..Len(w) : IsSegCmd(w[i]) /\ CmdSid(w[i]) = s

\* C1: debounce coalescing.  While a burst of live changes of segment s is
\* running (each change re-arming the timer, no other intent for s in between)
\* nothing is written for s; the one commit of the burst is the callback of the
\* timer its last change armed, and it writes at most one line, which carries
\* the colour of the last change.
C1_Coalescing ==
    [][\A s \in Sids :
          /\ (quiet[s] # None /\ quiet'[s] # None) => ~WroteFor(written', s)
          /\ (quiet[s] # None /\ last_op'.op = "timer" /\ last_op'.sid = s
                /\ quiet'[s] = None)
             => /\ Len(written') <= 1
                /\ written' # <<>> => written' = <<WireText(SegLine(s, rgb(s)))>>
      ]_vars

\* C2: a commit (from a timer or from Set) whose effective colour equals
\* last_sent writes nothing and leaves last_sent, the colour fields and the
\* connection as they were.
C2_Suppression ==
    [][\A s \in Sids :
          (last_op'.op \in CommitOps /\ last_op'.sid = s /\ rgb(s) = seg[s].last_sent)
          => /\ written' = <<>>
             /\ seg'[s].last_sent = seg[s].last_sent
             /\ SameVars(seg'[s], seg[s])
             /\ RgbOf(seg'[s]) = rgb(s)
             /\ ser' = ser
      ]_vars

\* C2 witness: the user moved a channel and back, and the timer's commit was
\* suppressed.
C2_Witness ==
    /\ last_op.op = "timer" /\ last_op.res = "suppressed"
    /\ written = <<>>

\* C3: last_sent of every segment is the colour of the last "S" command
\* written for it, or the initial colour when none was written.
C3_LastSentIsLastWritten ==
    \A s \in Sids :
        IF lastCmd[s] = <<>> THEN seg[s].last_sent = <<255, 1, 128>>
        ELSE seg[s].last_sent = CmdColor(lastCmd[s])

\* C3 witness: a command was written for a segment, and later a commit of a
\* different colour failed for want of a connection.
C3_Witness ==
    \E s \in Sids :
        /\ lastCmd[s] # <<>>
        /\ last_op.op \in CommitOps /\ last_op.sid = s /\ last_op.res = "not_connected"
        /\ rgb(s) # seg[s].last_sent

\* C4: a commit that cannot write because nothing is connected leaves last_sent
\* alone and reports "Not connected"; the next commit of that segment, with the
\* connection open and the colour the same, writes the colour the failed one
\* would have written.
C4_FailedCommitRetries ==
    [][\A s \in Sids :
          (last_op'.op \in CommitOps /\ last_op'.sid = s)
          => /\ (~Connected /\ rgb(s) # seg[s].last_sent)
                => /\ seg'[s].last_sent = seg[s].last_sent
                   /\ written' = <<>>
                   /\ status_var'.tag = "Not connected"
                   /\ last_op'.res = "not_connected"
                   /\ retry'[s] = rgb(s)
             /\ (retry[s] # <<>> /\ Connected /\ rgb(s) = retry[s])
                => /\ written' = <<WireText(SegLine(s, retry[s]))>>
                   /\ seg'[s].last_sent = retry[s]
      ]_vars

\* C4 witness: a commit wrote after the commit before it had failed.
C4_Witness ==
    /\ last_op.op \in CommitOps /\ last_op.retried /\ last_op.res = "sent"
    /\ written # <<>>

\* The channel values the StringVars of f hold (None where the text does not parse).
CurrentOf(f) == <<parse_entry(f.r_var), parse_entry(f.g_var), parse_entry(f.b_var)>>

\* C5 as claimed: a successful ON writes 'S,<sid>,255,255,255' and sets current
\* and last_sent to (255,255,255); a successful OFF writes 'S,<sid>,0,0,0' and
\* sets current and last_sent to (0,0,0).
C5_OnOffSetBoth ==
    [][\A s \in Sids :
          (last_op'.sid = s /\ last_op'.res = "sent")
          => /\ last_op'.op = "on"
                => /\ written' = <<OnWire(s)>>
                   /\ CurrentOf(seg'[s]) = <<255, 255, 255>>
                   /\ seg'[s].last_sent = <<255, 255, 255>>
             /\ last_op'.op = "off"
                => /\ written' = <<OffWire(s)>>
                   /\ CurrentOf(seg'[s]) = <<0, 0, 0>>
                   /\ seg'[s].last_sent = <<0, 0, 0>>
      ]_vars

\* C5 amended: a successful ON writes 'S,<sid>,255,255,255' in the handler
\* itself and sets current and last_sent to (255,255,255); a successful OFF
\* writes 'S,<sid>,0,0,0' in the handler itself and sets last_sent to (0,0,0),
\* leaving current as it was.
C5_OnOffAmended ==
    [][\A s \in Sids :
          (last_op'.sid = s /\ last_op'.res = "sent")
          => /\ last_op'.op = "on"
                => /\ written' = <<OnWire(s)>>
                   /\ CurrentOf(seg'[s]) = <<255, 255, 255>>
                   /\ seg'[s].last_sent = <<255, 255, 255>>
             /\ last_op'.op = "off"
                => /\ written' = <<OffWire(s)>>
                   /\ SameVars(seg'[s], seg[s])
                   /\ seg'[s].last_sent = <<0, 0, 0>>
      ]_vars

\* C5 witness: OFF was sent while a debounce timer was pending; last_sent is
\* black and the colour fields still hold the colour.
C5_Witness ==
    \E s \in Sids :
        /\ last_op.op = "off" /\ last_op.sid = s /\ last_op.res = "sent"
        /\ written = <<OffWire(s)>>
        /\ seg[s].after_id # None
        /\ seg[s].last_sent = <<0, 0, 0>>
        /\ CurrentOf(seg[s]) # <<0, 0, 0>>

\* C6: with nothing connected, ON and OFF write nothing, show "Not connected"
\* and leave every segment (its fields and its timers) as it was.
C6_OnOffNotConnected ==
    [][ (last_op'.op \in {"on", "off"} /\ ~Connected)
        => /\ written' = <<>>
           /\ status_var'.tag = "Not connected"
           /\ seg' = seg
           /\ timers' = timers ]_vars

\* C6 witness: ON of segment 1 failed for want of a connection while segment 0
\* was away from its initial state.
C6_Witness ==
    /\ last_op.op = "on" /\ last_op.sid = 1 /\ last_op.res = "not_connected"
    /\ status_var.tag = "Not connected"
    /\ seg[0] # InitSeg
    /\ written = <<>>

\* Whether a line is 'A,R,G,B' with one newline, at its end, and channels in 0..255.
IsAllCmd(line) ==
    /\ EndsWithNewline(line)
    /\ \A i \in 1..(Len(line) - 1) : line[i] # "\n"
    /\ Len(Fields(line)) = 4
    /\ Fields(line)[1] = <<"A">>
    /\ \A i \in 2..4 : IsDigitText(Fields(line)[i]) /\ DigitsValue(Fields(line)[i]) <= 255

\* C7: ALL ON, ALL OFF and ALL Color never change a segment's fields or timers;
\* with the port open each writes exactly one line: '1\n', '0\n', 'A,r,g,b\n'.
C7_GlobalOps ==
    [][ last_op'.op \in {"all_on", "all_off", "all_color"}
        => /\ seg' = seg
           /\ timers' = timers
           /\ Connected
              => /\ last_op'.op = "all_on" => written' = << <<"1", "\n">> >>
                 /\ last_op'.op = "all_off" => written' = << <<"0", "\n">> >>
                 /\ (last_op'.op = "all_color" /\ last_op'.res # "invalid")
                    => Len(written') = 1 /\ IsAllCmd(written'[1])
                 /\ (last_op'.op = "all_color"
                       /\ last_op'.arg = << <<"3", "0", "0">>, <<" ", "7">>, <<"-", "5">> >>)
                    => written' = << <<"A", ",", "2", "5", "5", ",", "7", ",", "0", "\n">> >>
      ]_vars

\* C7 witness (scenario C with a segment waiting for its timer): ALL OFF wrote
\* '0\n' and the segment still has its timer and its unsent colour.
C7_Witness ==
    /\ last_op.op = "all_off" /\ last_op.res = "sent"
    /\ written = << <<"0", "\n">> >>
    /\ \E s \in Sids : seg[s].after_id # None /\ rgb(s) # seg[s].last_sent

\* The step is a handler that calls send_line.
Attempts ==
    \/ last_op'.op \in {"on", "off", "all_on", "all_off"}
    \/ last_op'.op = "all_color" /\ last_op'.res # "invalid"
    \/ /\ last_op'.op \in CommitOps
       /\ \E s \in Sids : last_op'.sid = s /\ rgb(s) # seg[s].last_sent

\* C8: nothing is written while the port is not open; a write attempted then
\* returns false, shows "Not connected" and is dropped: opening or closing the
\* connection writes nothing, and whatever is written is the one line of the
\* handler that runs.
C8_NoWriteWhileDisconnected ==
    [][ /\ ~Connected => written' = <<>>
        /\ (~Connected /\ Attempts)
           => status_var'.tag = "Not connected" /\ last_op'.res = "not_connected"
        /\ last_op'.op \in {"connect", "disconnect", "on_close"} => written' = <<>>
        /\ written' # <<>> => Len(written') = 1 /\ Attempts /\ last_op'.res = "sent"
      ]_vars

\* C8 witness: a commit was dropped for want of a connection, then the port was
\* opened and nothing was written.
C8_Witness ==
    /\ last_op.op = "connect" /\ last_op.res = "opened"
    /\ \E s \in Sids : retry[s] # <<>>
    /\ written = <<>>

\* C9: the connection opens only by a connect that succeeds and closes only by
\* disconnect or shutdown; a connect that fails leaves it closed.
C9_ConnectionTransitions ==
    [][ /\ (ser = "None" /\ ser' = "Serial")
           => last_op'.op = "connect" /\ last_op'.res = "opened"
        /\ (ser = "Serial" /\ ser' = "None")
           => last_op'.op \in {"disconnect", "on_close"}
        /\ (last_op'.op = "connect" /\ last_op'.res # "opened")
           => ser = "None" /\ ser' = "None"
        /\ (last_op'.op = "connect" /\ last_op'.res = "opened")
           => ser = "None" /\ ser' = "Serial"
        /\ last_op'.op = "disconnect" => ser = "Serial" /\ ser' = "None"
      ]_vars

\* C9 witness: after a session that wrote a command and was disconnected, a
\* connect failed at open and the connection is still closed.
C9_Witness ==
    /\ last_op.op = "connect" /\ last_op.res = "open_failed"
    /\ ser = "None"
    /\ \E s \in Sids : lastCmd[s] # <<>>

\* The text is a positive integer, as int() reads it.
PositiveBaud(t) == IsIntText(Strip(t)) /\ IntValue(Strip(t)) > 0

\* C10 as claimed: connect with a port selected and a baud that is not a
\* positive integer shows the invalid-baud error without calling open, and
\* changes nothing.
C10_NonPositiveBaud ==
    [][ ( /\ last_op'.op = "connect"
          /\ Strip(last_op'.arg[1]) # <<>>
          /\ ~PositiveBaud(last_op'.arg[2]) )
        => /\ last_op'.res = "invalid_baud"
           /\ UNCHANGED <<ser, btn_connect, btn_disconnect, status_var, seg, timers>>
      ]_vars

\* C10 amended: connect with a port selected and a baud text that int() does not
\* read as an integer shows the invalid-baud error without calling open, and
\* changes nothing.
C10_NonIntegerBaud ==
    [][ ( /\ last_op'.op = "connect"
          /\ Strip(last_op'.arg[1]) # <<>>
          /\ ~IsIntText(Strip(last_op'.arg[2])) )
        => /\ last_op'.res = "invalid_baud"
           /\ UNCHANGED <<ser, btn_connect, btn_disconnect, status_var, seg, timers>>
      ]_vars

\* C10 witness (scenario D): connect with 'abc' in the Baud entry was refused,
\* with a segment away from its initial state.
C10_Witness ==
    /\ last_op.op = "connect" /\ last_op.res = "invalid_baud"
    /\ last_op.arg[2] = <<"a", "b", "c">>
    /\ ser = "None"
    /\ \E s \in Sids : seg[s] # InitSeg

\* The handlers of a live change (the entry's trace and the scale's command).
LiveOps == {"on_entry_change", "on_scale"}

\* C11: a live change of segment s writes nothing when it is made and changes
\* last_sent of no segment; it leaves the other segments, the connection and
\* the status alone, and when it stores a value it re-arms the timer of s: the
\* timer after_id named is cancelled and a new one is armed in its place, and
\* a channel it changed holds a value within 1..255.
C11_LiveChangeFrame ==
    [][\A s \in Sids :
          (last_op'.op \in LiveOps /\ last_op'.sid = s)
          => /\ written' = <<>>
             /\ lastCmd' = lastCmd
             /\ \A u \in Sids : seg'[u].last_sent = seg[u].last_sent
             /\ \A u \in Sids \ {s} : seg'[u] = seg[u] /\ timers'[u] = timers[u]
             /\ UNCHANGED <<ser, handles, btn_connect, btn_disconnect, status_var,
                            destroyed>>
             /\ last_op'.res = "scheduled"
                => /\ seg'[s].after_id # None
                   /\ timers'[s] = (timers[s] \ {seg[s].after_id}) \cup {seg'[s].after_id}
                   /\ \A i \in 1..3 : CurrentOf(seg'[s])[i] \in 1..255
                                        \/ CurrentOf(seg'[s])[i] = CurrentOf(seg[s])[i]
      ]_vars

\* C11 witness: with the port open and a timer already pending, a live change
\* left a colour that differs from last_sent and wrote nothing.
C11_Witness ==
    \E s \in Sids :
        /\ last_op.op \in LiveOps /\ last_op.sid = s /\ last_op.res = "scheduled"
        /\ Connected
        /\ written = <<>>
        /\ seg[s].after_id \in timers[s]
        /\ rgb(s) # seg[s].last_sent
        /\ lastCmd[s] # <<>>

\* C12: an integer outside 1..255 (negative and 0 included) given as a channel
\* value of a segment is never rejected: the channel then holds
\* max(1, min(255, v)).
C12_OutOfRangeClamped ==
    [][\A s \in Sids, ch \in Channels, text \in EntryTextsOne :
          ( /\ IsIntText(text)
            /\ IntValue(text) \notin 1..255
            /\ on_entry_change(s, ch, text) )
          => /\ last_op'.res = "scheduled"
             /\ parse_entry(seg'[s][ch]) = Max(1, Min(255, IntValue(text)))
      ]_vars

\* 'A,0,255,255\n'
AllWire0 == <<"A", ",", "0", ",">> \o T255 \o Comma \o T255 \o NL

\* C13: the line ALL Color sends carries, for each channel, max(0, min(255, v))
\* of the integer v entered: values outside 0..255 are clamped (300 -> 255,
\* 256 -> 255, -5 -> 0) and values within, 0 included, are sent as entered.
C13_AllColorClamp ==
    [][ (last_op'.op = "all_color" /\ last_op'.res = "sent")
        => /\ Len(written') = 1
           /\ IsAllCmd(written'[1])
           /\ \A i \in 1..3 :
                 DigitsValue(Fields(written'[1])[i + 1])
                    = Max(0, Min(255, IntValue(last_op'.arg[i])))
           /\ last_op'.arg = << <<"0">>, <<"2", "5", "5">>, <<"2", "5", "6">> >>
              => written' = <<AllWire0>>
      ]_vars

\* C13 witness: ALL Color with 0, 255 and 256 entered sent 'A,0,255,255'.
C13_Witness ==
    /\ last_op.op = "all_color" /\ last_op.res = "sent"
    /\ last_op.arg = << <<"0">>, <<"2", "5", "5">>, <<"2", "5", "6">> >>
    /\ written = <<AllWire0>>

\* C14 as claimed: of two commits of a segment in a row, with no live change
\* of that segment between them, at most one writes: once a commit has
\* written, the next commit writes nothing, whatever else came between.
C14_CommitTwice ==
    [][\A s \in Sids :
          ( /\ last_op'.op \in CommitOps /\ last_op'.sid = s
            /\ chain[s] \in {"wrote", "wrote_off"} )
          => written' = <<>>
      ]_vars

\* C14 amended: of two commits of a segment in a row, with no live change and
\* no OFF that was sent for that segment between them, at most one writes, and
\* it writes one line; ON, the global buttons, the other segments and a change
\* of the connection may come between.
C14_CommitTwiceNoOff ==
    [][\A s \in Sids :
          (last_op'.op \in CommitOps /\ last_op'.sid = s)
          => /\ Len(written') <= 1
             /\ chain[s] = "wrote" => written' = <<>> /\ last_op'.res = "suppressed"
      ]_vars

\* C14 witness: a commit wrote, the connection was closed, and the next commit
\* of the segment wrote nothing.
C14_Witness ==
    \E s \in Sids :
        /\ last_op.op \in CommitOps /\ last_op.sid = s /\ last_op.res = "suppressed"
        /\ chain[s] = "second"
        /\ ~Connected
        /\ written = <<>>

\* C15: a segment never has more than one timer outstanding: every re-arm
\* cancels the timer that was pending for the segment.
C15_OneTimer ==
    \A s \in Sids : Cardinality(timers[s]) <= 1

\* The "S" line on the wire for segment s is ON's ('S,<sid>,255,255,255').
LastIsOn(s) == lastCmd[s] = OnWire(s)

\* The "S" line on the wire for segment s is OFF's ('S,<sid>,0,0,0').
LastIsOff(s) == lastCmd[s] = OffWire(s)

\* C16: while ON or OFF, as sent, is the user's latest action on a segment's
\* panel, its command is the last line written for the segment: no timer that
\* was pending, or that ON armed, writes for the segment afterwards.
C16_OnOffStays ==
    \A s \in Sids :
        /\ intent[s] = "on" => LastIsOn(s)
        /\ intent[s] = "off" => LastIsOff(s)

\* The last handler was a live change of segment s that stored a value.
LiveOn(s) == last_op.op \in LiveOps /\ last_op.sid = s /\ last_op.res = "scheduled"

\* Segment s has nothing left to send: last_sent is its colour and no timer
\* of it is outstanding.
Converged(s) ==
    /\ seg[s].last_sent = rgb(s)
    /\ timers[s] = {}
    /\ seg[s].after_id = None

\* C17: with the port open, a live change of a segment leads to a state where
\* last_sent of the segment is its colour and none of its timers is pending,
\* unless the port is closed or the user does something else first; every
\* timer that is armed fires.
C17_Convergence ==
    \A s \in Sids :
        (LiveOn(s) /\ Connected)
           ~> (Converged(s) \/ ~Connected \/ (last_op.op # "timer" /\ ~LiveOn(s)))

\* C17 witness: the timer of a live change fired with the port open, wrote the
\* colour, and left the segment with nothing to send.
C17_Witness ==
    \E s \in Sids :
        /\ last_op.op = "timer" /\ last_op.sid = s /\ last_op.res = "sent"
        /\ intent[s] = "live"
        /\ Connected
        /\ Converged(s)
        /\ lastCmd[s] = WireText(SegLine(s, seg[s].last_sent))

\* C18: text that does not parse, typed into a channel's entry, is no error and
\* arms no timer, and the colour of the segment (what the preview shows and
\* what the next commit sends) stays what it was before the text was typed.
C18_UnparsableKeepsColor ==
    [][\A s \in Sids, ch \in Channels, text \in EntryTextsOne :
          (parse_entry(text) = None /\ on_entry_change(s, ch, text))
          => /\ last_op'.res = "unparsable"
             /\ timers' = timers
             /\ seg'[s].after_id = seg[s].after_id
             /\ status_var' = status_var
             /\ RgbOf(seg'[s]) = rgb(s)
             /\ seg'[s].swatch = seg[s].swatch
      ]_vars

\* C19: the process never holds more than one serial port open: the port the
\* bridge refers to is the only one that is open, a connect that fails leaves
\* none open, and after disconnect or shutdown none is open.
C19_OneHandle ==
    /\ handles <= 1
    /\ handles = (IF Connected THEN 1 ELSE 0)
    /\ last_op.op \in {"disconnect", "on_close"} => handles = 0
    /\ (last_op.op = "connect" /\ last_op.res # "opened") => handles = 0
    /\ destroyed => handles = 0

\* C19 witness: a second session was opened after the first one wrote a
\* command and was closed, and one port is open.
C19_Witness ==
    /\ last_op.op = "connect" /\ last_op.res = "opened"
    /\ \E s \in Sids : lastCmd[s] # <<>>
    /\ handles = 1

\* The line ends in a newline and holds no other.
OneNewline(line) ==
    /\ EndsWithNewline(line)
    /\ \A i \in 1..(Len(line) - 1) : line[i] # "\n"

\* 'S,<sid>,R,G,B' with sid in 0..4, the numbers written without padding, and
\* the channels either all within 1..255 or all 0.
IsSegLine(line) ==
    /\ IsSegCmd(line)
    /\ \A i \in 2..5 : Fields(line)[i] = Str(DigitsValue(Fields(line)[i]))
    /\ CmdSid(line) \in 0..4
    /\ \/ \A i \in 1..3 : CmdColor(line)[i] \in 1..255
       \/ CmdColor(line) = <<0, 0, 0>>

\* A line of the wire protocol as the program may write it.
IsWireLine(line) ==
    /\ OneNewline(line)
    /\ \/ line = <<"0", "\n">>
       \/ line = <<"1", "\n">>
       \/ IsAllCmd(line)
       \/ IsSegLine(line)

\* C20: every line written to the port is 'S,<sid>,R,G,B' (sid in 0..4, the
\* channels all within 1..255, or all 0 for OFF), 'A,R,G,B' (channels within
\* 0..255), '0' or '1', ending in exactly one newline; the line of a commit
\* carries the segment's colour, every channel within 1..255.
C20_WireLines ==
    /\ \A i \in 1..Len(written) : IsWireLine(written[i])
    /\ (last_op.op \in CommitOps /\ written # <<>>)
       => /\ Len(written) = 1
          /\ IsSegLine(written[1])
          /\ CmdSid(written[1]) = last_op.sid
          /\ \A i \in 1..3 : CmdColor(written[1])[i] \in 1..255
    /\ (last_op.op = "off" /\ written # <<>>) => written = <<OffWire(last_op.sid)>>

\* C20 witness: a commit wrote a colour with a channel that was entered as 0
\* and is sent as 1.
C20_Witness ==
    \E s \in Sids :
        /\ last_op.op \in CommitOps /\ last_op.sid = s /\ last_op.res = "sent"
        /\ seg[s].r_var = <<"1">>
        /\ written = << <<"S", ",", DigitChars[s + 1], ",", "1", ",", "1", ",",
                          "1", "2", "8", "\n">> >>

====
